---- MODULE Spec2Model ----
(***************************************************************************)
(* Agent memory of the code-agent plugin: the step records of              *)
(* smolagents/memory.py (ToolCall, ActionStep, PlanningStep, TaskStep,     *)
(* SystemPromptStep, FinalAnswerStep), their dict() and to_messages()      *)
(* projections, and the AgentMemory log with reset, get_succinct_steps,    *)
(* get_full_steps and replay.                                              *)
(*                                                                         *)
(* Python values are tagged records [t |-> <type>, ...].  A str is the     *)
(* sequence of its characters (a literal of the source may be kept as one  *)
(* chunk), so that concatenation is \o and strip() really removes          *)
(* something.                                                              *)
(***************************************************************************)
EXTENDS Integers, Sequences, FiniteSets, TLC

VARIABLES
    system_prompt,  \* AgentMemory.system_prompt
    steps,          \* AgentMemory.steps
    step,           \* a step object whose methods are called directly
    last,           \* the operation called last
    arg,            \* the argument of that call (summary_mode, detailed, the step)
    result,         \* the value it returned
    raised,         \* the exception it raised, "none" when it returned
    sink,           \* the calls that operation made on the logger given to it, in order
    prompt_arg,     \* the system_prompt argument of AgentMemory.__init__
    appended,       \* history: the steps appended since the last reset, in order
    pre             \* history: the memory as it was when the last operation was called

vars == <<system_prompt, steps, step, last, arg, result, raised, sink, prompt_arg, appended, pre>>

(***************************************************************************)
(* Bounds of the model.                                                    *)
(***************************************************************************)
MaxSteps == 3

MaxStepNumber == 2

(***************************************************************************)
(* Python values.                                                          *)
(***************************************************************************)
PyNone == [t |-> "None"]

PyBool(b) == [t |-> "bool", v |-> b]

PyInt(n) == [t |-> "int", v |-> n]

PyStr(cs) == [t |-> "str", v |-> cs]

PyList(xs) == [t |-> "list", v |-> xs]

PyDict(m) == [t |-> "dict", v |-> m]

PyBytes(of) == [t |-> "bytes", v |-> of]

\* An instance of a class; dc says whether the class is a dataclass.
PyObj(cls, dc, fields) == [t |-> "object", cls |-> cls, dc |-> dc, v |-> fields]

\* Python truthiness, as used by `if x` and `x if y else z`.
Truthy(x) ==
    CASE x.t = "None" -> FALSE
      [] x.t = "bool" -> x.v
      [] x.t = "int" -> x.v # 0
      [] x.t = "str" -> x.v # <<>>
      [] x.t = "list" -> x.v # <<>>
      [] x.t = "dict" -> DOMAIN x.v # {}
      [] x.t = "bytes" -> TRUE
      [] x.t = "object" -> TRUE

MapSeq(F(_), xs) == [i \in 1..Len(xs) |-> F(xs[i])]

\* str.strip(): leading and trailing whitespace removed.
Whitespace == {" ", "\n", "\t"}

RECURSIVE LStrip(_)
LStrip(cs) ==
    IF cs = <<>> THEN cs
    ELSE IF Head(cs) \in Whitespace THEN LStrip(Tail(cs)) ELSE cs

RECURSIVE RStrip(_)
RStrip(cs) ==
    IF cs = <<>> THEN cs
    ELSE IF cs[Len(cs)] \in Whitespace THEN RStrip(SubSeq(cs, 1, Len(cs) - 1)) ELSE cs

Strip(s) == PyStr(RStrip(LStrip(s.v)))

\* str(x) of a str is x; of a list or dict it is the textual dump of the value.
Str(x) == IF x.t = "str" THEN x ELSE PyStr(<<ToString(x)>>)

\* a + b on str; an f-string is the concatenation of its parts.
Concat(a, b) == PyStr(a.v \o b.v)

(***************************************************************************)
(* Collaborators imported by memory.py.                                    *)
(***************************************************************************)
RoleSystem == "system"

RoleUser == "user"

RoleAssistant == "assistant"

RoleToolCall == "tool-call"

RoleToolResponse == "tool-response"

ChatMessage(role, content) ==
    PyObj("ChatMessage", TRUE, [role |-> PyStr(<<role>>), content |-> content])

TextItem(s) == PyDict([type |-> PyStr(<<"text">>), text |-> s])

ImageItem(image) == PyDict([type |-> PyStr(<<"image">>), image |-> image])

Image(n) == PyObj("PIL.Image.Image", FALSE, [pixels |-> PyInt(n)])

image_tobytes(image) == PyBytes(image.v.pixels.v)

Timing(start, end) == PyObj("Timing", TRUE, [start_time |-> start, end_time |-> end])

Timing_dict(tm) ==
    PyDict([start_time |-> tm.v.start_time,
            end_time |-> tm.v.end_time,
            duration |-> IF tm.v.end_time = PyNone THEN PyNone
                         ELSE PyInt(tm.v.end_time.v - tm.v.start_time.v)])

TokenUsage(i, o) ==
    PyObj("TokenUsage", TRUE,
          [input_tokens |-> PyInt(i), output_tokens |-> PyInt(o), total_tokens |-> PyInt(i + o)])

AgentError(type, message) ==
    PyObj(type, FALSE, [message |-> PyStr(message)])

AgentError_dict(e) == PyDict([type |-> PyStr(<<e.cls>>), message |-> e.v.message])

AgentError_str(e) == e.v.message

ChatMessage_dict(m) == PyDict([role |-> m.v.role, content |-> m.v.content])

\* The JSON normalizer: containers are walked, an opaque object becomes its
\* string representation, everything else is kept.
RECURSIVE make_json_serializable(_)
make_json_serializable(x) ==
    CASE x.t = "list" -> PyList([i \in 1..Len(x.v) |-> make_json_serializable(x.v[i])])
      [] x.t = "dict" -> PyDict([k \in DOMAIN x.v |-> make_json_serializable(x.v[k])])
      [] x.t \in {"object", "bytes"} -> PyStr(<<ToString(x)>>)
      [] OTHER -> x

\* dataclasses.asdict: dataclass instances become dicts of their fields,
\* lists and dicts are walked, any other value is (deep-)copied as it is.
RECURSIVE asdict_inner(_)
asdict_inner(x) ==
    CASE x.t = "object" /\ x.dc -> PyDict([k \in DOMAIN x.v |-> asdict_inner(x.v[k])])
      [] x.t = "list" -> PyList([i \in 1..Len(x.v) |-> asdict_inner(x.v[i])])
      [] x.t = "dict" -> PyDict([k \in DOMAIN x.v |-> asdict_inner(x.v[k])])
      [] OTHER -> x

(***************************************************************************)
(* ToolCall                                                                *)
(***************************************************************************)
ToolCall(name, arguments, id) ==
    PyObj("ToolCall", TRUE, [name |-> PyStr(<<name>>), arguments |-> arguments, id |-> PyStr(<<id>>)])

ToolCall_dict(tc) ==
    PyDict([id |-> tc.v.id,
            type |-> PyStr(<<"function">>),
            function |-> PyDict([name |-> tc.v.name,
                                 arguments |-> make_json_serializable(tc.v.arguments)])])

(***************************************************************************)
(* The step classes.  A step is a dataclass instance.                      *)
(***************************************************************************)
ActionStep(step_number, timing, model_input_messages, tool_calls, error, model_output_message, model_output, observations, observations_images, action_output, token_usage, is_final_answer) ==
    PyObj("ActionStep", TRUE,
          [step_number |-> step_number,
           timing |-> timing,
           model_input_messages |-> model_input_messages,
           tool_calls |-> tool_calls,
           error |-> error,
           model_output_message |-> model_output_message,
           model_output |-> model_output,
           observations |-> observations,
           observations_images |-> observations_images,
           action_output |-> action_output,
           token_usage |-> token_usage,
           is_final_answer |-> is_final_answer])

PlanningStep(model_input_messages, model_output_message, plan, timing, token_usage) ==
    PyObj("PlanningStep", TRUE,
          [model_input_messages |-> model_input_messages,
           model_output_message |-> model_output_message,
           plan |-> plan,
           timing |-> timing,
           token_usage |-> token_usage])

TaskStep(task, task_images) ==
    PyObj("TaskStep", TRUE, [task |-> task, task_images |-> task_images])

SystemPromptStep(prompt) ==
    PyObj("SystemPromptStep", TRUE, [system_prompt |-> prompt])

FinalAnswerStep(output) ==
    PyObj("FinalAnswerStep", TRUE, [output |-> output])

\* The outcome of a call: the exception it raised ("none" when it returned)
\* and the value it returned.
Return(value) == [exc |-> "none", ret |-> value]

Raise(exc) == [exc |-> exc, ret |-> PyNone]

(***************************************************************************)
(* dict()                                                                  *)
(***************************************************************************)
MemoryStep_dict(self) == asdict_inner(self)

\* The same with null for an unset tool_calls.
ToolCallDicts_null(self) ==
    IF Truthy(self.v.tool_calls)
    THEN PyList(MapSeq(ToolCall_dict, self.v.tool_calls.v))
    ELSE PyNone

\* [tc.dict() for tc in self.tool_calls] if self.tool_calls else []
ToolCallDicts(self) ==
    IF Truthy(self.v.tool_calls)
    THEN PyList(MapSeq(ToolCall_dict, self.v.tool_calls.v))
    ELSE PyList(<<>>)

ActionStep_dict(self) ==
    PyDict(
      [step_number |-> self.v.step_number,
       timing |-> Timing_dict(self.v.timing),
       model_input_messages |-> self.v.model_input_messages,
       tool_calls |-> ToolCallDicts(self),
       error |-> IF Truthy(self.v.error) THEN AgentError_dict(self.v.error) ELSE PyNone,
       model_output_message |->
           IF Truthy(self.v.model_output_message)
           THEN ChatMessage_dict(self.v.model_output_message)
           ELSE PyNone,
       model_output |-> self.v.model_output,
       observations |-> self.v.observations,
       observations_images |->
           IF Truthy(self.v.observations_images)
           THEN PyList(MapSeq(image_tobytes, self.v.observations_images.v))
           ELSE PyNone,
       action_output |-> make_json_serializable(self.v.action_output),
       token_usage |->
           IF Truthy(self.v.token_usage) THEN asdict_inner(self.v.token_usage) ELSE PyNone,
       is_final_answer |-> self.v.is_final_answer])

\* step.dict(), dispatched on the class of the step.
Step_dict(self) ==
    IF self.cls = "ActionStep" THEN ActionStep_dict(self) ELSE MemoryStep_dict(self)

(***************************************************************************)
(* to_messages()                                                           *)
(***************************************************************************)
RetryGuidance ==
    "\nNow let's retry: take care not to repeat previous errors! If you have retried several times, try a completely different approach.\n"

MemoryStep_to_messages(self, summary_mode) == Raise("NotImplementedError")

\* if self.model_output is not None and not summary_mode: ...
ModelOutputMessages(self, summary_mode) ==
    IF self.v.model_output # PyNone /\ ~summary_mode
    THEN <<ChatMessage(RoleAssistant, PyList(<<TextItem(Strip(self.v.model_output))>>))>>
    ELSE <<>>

\* The same with `if self.tool_calls:` for `if self.tool_calls is not None:`.
ToolCallMessages_truthy(self) ==
    IF Truthy(self.v.tool_calls)
    THEN <<ChatMessage(RoleToolCall,
              PyList(<<TextItem(Concat(PyStr(<<"Calling tools:\n">>),
                         Str(PyList(MapSeq(ToolCall_dict, self.v.tool_calls.v)))))>>))>>
    ELSE <<>>

\* if self.tool_calls is not None: ...
ToolCallMessages(self) ==
    IF self.v.tool_calls # PyNone
    THEN <<ChatMessage(RoleToolCall,
              PyList(<<TextItem(Concat(PyStr(<<"Calling tools:\n">>),
                         Str(PyList(MapSeq(ToolCall_dict, self.v.tool_calls.v)))))>>))>>
    ELSE <<>>

\* if self.observations_images: ...
ObservationImageMessages(self) ==
    IF Truthy(self.v.observations_images)
    THEN <<ChatMessage(RoleUser, PyList(MapSeq(ImageItem, self.v.observations_images.v)))>>
    ELSE <<>>

\* if self.observations is not None: ...
ObservationMessages(self) ==
    IF self.v.observations # PyNone
    THEN <<ChatMessage(RoleToolResponse,
              PyList(<<TextItem(Concat(PyStr(<<"Observation:\n">>), self.v.observations))>>))>>
    ELSE <<>>

\* The same with the id of the last tool call (tool_calls[-1]) for the first.
ErrorMessages_last_id(self) ==
    LET error_message ==
            Concat(Concat(PyStr(<<"Error:\n">>), AgentError_str(self.v.error)),
                   PyStr(<<RetryGuidance>>))
        message_content ==
            Concat(IF Truthy(self.v.tool_calls)
                   THEN Concat(Concat(PyStr(<<"Call id: ">>),
                                      self.v.tool_calls.v[Len(self.v.tool_calls.v)].v.id),
                               PyStr(<<"\n">>))
                   ELSE PyStr(<<>>),
                   error_message)
    IN  IF self.v.error # PyNone
        THEN <<ChatMessage(RoleToolResponse, PyList(<<TextItem(message_content)>>))>>
        ELSE <<>>

\* if self.error is not None: ...
ErrorMessages(self) ==
    LET error_message ==
            Concat(Concat(PyStr(<<"Error:\n">>), AgentError_str(self.v.error)),
                   PyStr(<<RetryGuidance>>))
        message_content ==
            Concat(IF Truthy(self.v.tool_calls)
                   THEN Concat(Concat(PyStr(<<"Call id: ">>), self.v.tool_calls.v[1].v.id),
                               PyStr(<<"\n">>))
                   ELSE PyStr(<<>>),
                   error_message)
    IN  IF self.v.error # PyNone
        THEN <<ChatMessage(RoleToolResponse, PyList(<<TextItem(message_content)>>))>>
        ELSE <<>>

ActionStep_to_messages(self, summary_mode) ==
    Return(PyList(ModelOutputMessages(self, summary_mode)
                  \o ToolCallMessages(self)
                  \o ObservationImageMessages(self)
                  \o ObservationMessages(self)
                  \o ErrorMessages(self)))

PlanningStep_to_messages(self, summary_mode) ==
    IF summary_mode THEN Return(PyList(<<>>))
    ELSE Return(PyList(<<
           ChatMessage(RoleAssistant, PyList(<<TextItem(Strip(self.v.plan))>>)),
           ChatMessage(RoleUser, PyList(<<TextItem(PyStr(<<"Now proceed and carry out this plan.">>))>>))
         >>))

TaskStep_to_messages(self, summary_mode) ==
    LET content == <<TextItem(Concat(PyStr(<<"New task:\n">>), self.v.task))>>
        images == IF Truthy(self.v.task_images)
                  THEN MapSeq(ImageItem, self.v.task_images.v)
                  ELSE <<>>
    IN  Return(PyList(<<ChatMessage(RoleUser, PyList(content \o images))>>))

SystemPromptStep_to_messages(self, summary_mode) ==
    IF summary_mode THEN Return(PyList(<<>>))
    ELSE Return(PyList(<<ChatMessage(RoleSystem, PyList(<<TextItem(self.v.system_prompt)>>))>>))

\* step.to_messages(summary_mode), dispatched on the class of the step;
\* FinalAnswerStep defines none and inherits MemoryStep's.
Step_to_messages(self, summary_mode) ==
    CASE self.cls = "ActionStep" -> ActionStep_to_messages(self, summary_mode)
      [] self.cls = "PlanningStep" -> PlanningStep_to_messages(self, summary_mode)
      [] self.cls = "TaskStep" -> TaskStep_to_messages(self, summary_mode)
      [] self.cls = "SystemPromptStep" -> SystemPromptStep_to_messages(self, summary_mode)
      [] OTHER -> MemoryStep_to_messages(self, summary_mode)

(***************************************************************************)
(* AgentMemory                                                             *)
(***************************************************************************)
Memory(sp, st) == [system_prompt |-> sp, steps |-> st]

AgentMemory_init(prompt) == Memory(SystemPromptStep(prompt), <<>>)

\* The same with the list left as it is (self.steps.clear without the call).
AgentMemory_reset_noop(self) == Memory(self.system_prompt, self.steps)

AgentMemory_reset(self) == Memory(self.system_prompt, <<>>)

\* The same with the step put at the front (self.steps.insert(0, s)).
steps_append_front(self, s) == Memory(self.system_prompt, <<s>> \o self.steps)

\* self.steps.append(s), done by the agent loop that owns the memory.
steps_append(self, s) == Memory(self.system_prompt, Append(self.steps, s))

DropKey(d, key) == PyDict([k \in DOMAIN d.v \ {key} |-> d.v[k]])

\* The same without the key filter.
AgentMemory_get_succinct_steps_unfiltered(self) ==
    PyList([i \in 1..Len(self.steps) |-> Step_dict(self.steps[i])])

AgentMemory_get_succinct_steps(self) ==
    PyList([i \in 1..Len(self.steps) |-> DropKey(Step_dict(self.steps[i]), "model_input_messages")])

\* The same with the key filter of get_succinct_steps applied.
AgentMemory_get_full_steps_filtered(self) ==
    PyList([i \in 1..Len(self.steps) |-> DropKey(Step_dict(self.steps[i]), "model_input_messages")])

AgentMemory_get_full_steps(self) ==
    PyList([i \in 1..Len(self.steps) |-> Step_dict(self.steps[i])])

\* One call on the logger.
LogCall(op, args) == [op |-> op, args |-> args, level |-> "ERROR"]

ConsoleLog(text) == [op |-> "console.log", args |-> <<text>>, level |-> "none"]

\* The same with the input messages logged whether or not detailed is set.
LogInputMessages_always(s, detailed) ==
    IF s.v.model_input_messages # PyNone
    THEN <<LogCall("log_messages", <<s.v.model_input_messages>>)>>
    ELSE <<>>

\* if detailed and step.model_input_messages is not None: logger.log_messages(...)
LogInputMessages(s, detailed) ==
    IF detailed /\ s.v.model_input_messages # PyNone
    THEN <<LogCall("log_messages", <<s.v.model_input_messages>>)>>
    ELSE <<>>

\* The body of replay's loop for one step.
ReplayStep(s, detailed) ==
    CASE s.cls = "TaskStep" ->
           <<LogCall("log_task", <<s.v.task, PyStr(<<>>)>>)>>
      [] s.cls = "ActionStep" ->
           <<LogCall("log_rule", <<Concat(PyStr(<<"Step ">>), Str(s.v.step_number))>>)>>
           \o LogInputMessages(s, detailed)
           \o (IF s.v.model_output # PyNone
               THEN <<LogCall("log_markdown", <<PyStr(<<"Agent output:">>), s.v.model_output>>)>>
               ELSE <<>>)
      [] s.cls = "PlanningStep" ->
           <<LogCall("log_rule", <<PyStr(<<"Planning step">>)>>)>>
           \o LogInputMessages(s, detailed)
           \o <<LogCall("log_markdown", <<PyStr(<<"Agent output:">>), s.v.plan>>)>>
      [] OTHER -> <<>>

RECURSIVE ReplaySteps(_, _)
ReplaySteps(ss, detailed) ==
    IF ss = <<>> THEN <<>>
    ELSE ReplayStep(Head(ss), detailed) \o ReplaySteps(Tail(ss), detailed)

\* The calls replay makes on the logger it is given.
AgentMemory_replay(self, detailed) ==
    <<ConsoleLog(PyStr(<<"Replaying the agent's steps:">>)),
      LogCall("log_markdown", <<PyStr(<<"System prompt">>), self.system_prompt.v.system_prompt>>)>>
    \o ReplaySteps(self.steps, detailed)

(***************************************************************************)
(* Inputs.                                                                 *)
(***************************************************************************)
Prompts == {PyStr(<<"You are a coding agent.">>), PyStr(<<"Be brief.">>)}

TaskText == PyStr(<<"write fib">>)

CodeText == PyStr(<<"def fib(n): ...">>)

Timing0 == Timing(PyInt(0), PyInt(1))

InputMessages == PyList(<<ChatMessage(RoleUser, PyList(<<TextItem(TaskText)>>))>>)

OutputMessage == ChatMessage(RoleAssistant, PyList(<<TextItem(CodeText)>>))

StepNumbers == 1..MaxStepNumber

\* The steps the agent loop appends to the memory.
DriverSteps ==
    {TaskStep(TaskText, PyNone)}
    \cup {ActionStep(PyInt(n), Timing0, io[1], PyNone, PyNone, PyNone, io[2], PyNone,
                     PyNone, PyNone, PyNone, PyBool(FALSE)) :
            n \in StepNumbers,
            io \in {<<PyNone, PyNone>>, <<PyNone, CodeText>>, <<InputMessages, CodeText>>}}
    \cup {PlanningStep(InputMessages, OutputMessage, PyStr(<<" ", "plan", "\n">>), Timing0, PyNone)}

(***************************************************************************)
(* The memory and the operations on it.                                    *)
(***************************************************************************)
Self == Memory(system_prompt, steps)

Init ==
    \E p \in Prompts :
        /\ prompt_arg = p
        /\ system_prompt = AgentMemory_init(p).system_prompt
        /\ steps = AgentMemory_init(p).steps
        /\ step = PyNone
        /\ last = "__init__"
        /\ arg = PyNone
        /\ result = PyNone
        /\ raised = "none"
        /\ sink = <<>>
        /\ appended = <<>>
        /\ pre = AgentMemory_init(p)

AppendStep ==
    \E s \in DriverSteps :
        /\ Len(steps) < MaxSteps
        /\ system_prompt' = steps_append(Self, s).system_prompt
        /\ steps' = steps_append(Self, s).steps
        /\ appended' = Append(appended, s)
        /\ last' = "append"
        /\ arg' = s
        /\ result' = PyNone
        /\ raised' = "none"
        /\ sink' = <<>>
        /\ pre' = Self
        /\ UNCHANGED <<step, prompt_arg>>

Reset ==
    /\ system_prompt' = AgentMemory_reset(Self).system_prompt
    /\ steps' = AgentMemory_reset(Self).steps
    /\ appended' = <<>>
    /\ last' = "reset"
    /\ arg' = PyNone
    /\ result' = PyNone
    /\ raised' = "none"
    /\ sink' = <<>>
    /\ pre' = Self
    /\ UNCHANGED <<step, prompt_arg>>

GetSuccinctSteps ==
    /\ result' = AgentMemory_get_succinct_steps(Self)
    /\ last' = "get_succinct_steps"
    /\ arg' = PyNone
    /\ raised' = "none"
    /\ sink' = <<>>
    /\ pre' = Self
    /\ UNCHANGED <<system_prompt, steps, step, prompt_arg, appended>>

GetFullSteps ==
    /\ result' = AgentMemory_get_full_steps(Self)
    /\ last' = "get_full_steps"
    /\ arg' = PyNone
    /\ raised' = "none"
    /\ sink' = <<>>
    /\ pre' = Self
    /\ UNCHANGED <<system_prompt, steps, step, prompt_arg, appended>>

Replay ==
    \E detailed \in BOOLEAN :
        /\ sink' = AgentMemory_replay(Self, detailed)
        /\ last' = "replay"
        /\ arg' = PyBool(detailed)
        /\ result' = PyNone
        /\ raised' = "none"
        /\ pre' = Self
        /\ UNCHANGED <<system_prompt, steps, step, prompt_arg, appended>>

Next == AppendStep \/ Reset \/ GetSuccinctSteps \/ GetFullSteps \/ Replay

Spec == Init /\ [][Next]_vars

(***************************************************************************)
(* The step methods called on one step object, for every step the          *)
(* dataclasses can hold.                                                   *)
(***************************************************************************)
Opaque == PyObj("Widget", FALSE, [handle |-> PyInt(7)])

ToolCall1 == ToolCall("search", PyDict([q |-> PyStr(<<"x">>)]), "t1")

ToolCall2 == ToolCall("inspect", PyList(<<Opaque>>), "t2")

Error0 == AgentError("AgentExecutionError", <<"boom">>)

Usage0 == TokenUsage(3, 4)

Optional(x) == {PyNone, x}

ActionSteps ==
    {ActionStep(PyInt(n), tm, mim, tcs, err, mom, mo, obs, imgs, ao, tu, PyBool(fin)) :
        n \in StepNumbers,
        tm \in {Timing0, Timing(PyInt(0), PyNone)},
        mim \in Optional(InputMessages),
        tcs \in {PyNone, PyList(<<>>), PyList(<<ToolCall1>>), PyList(<<ToolCall2, ToolCall1>>)},
        err \in Optional(Error0),
        mom \in Optional(OutputMessage),
        mo \in {PyNone, CodeText, PyStr(<<" ", "x", "\n">>), PyStr(<<" ">>)},
        obs \in Optional(PyStr(<<"3">>)),
        imgs \in {PyNone, PyList(<<>>), PyList(<<Image(1)>>)},
        ao \in {PyNone, PyInt(42), Opaque},
        tu \in Optional(Usage0),
        fin \in BOOLEAN}

OtherSteps ==
    {SystemPromptStep(p) : p \in Prompts}
    \cup {TaskStep(TaskText, imgs) : imgs \in {PyNone, PyList(<<>>), PyList(<<Image(1)>>)}}
    \cup {PlanningStep(InputMessages, OutputMessage, pl, Timing0, tu) :
            pl \in {PyStr(<<"plan">>), PyStr(<<"\n", "plan", " ">>)}, tu \in Optional(Usage0)}
    \cup {FinalAnswerStep(out) : out \in {PyNone, CodeText, Opaque}}

AllSteps == ActionSteps \cup OtherSteps

InitStep ==
    /\ step \in AllSteps
    /\ prompt_arg = PyStr(<<"You are a coding agent.">>)
    /\ system_prompt = AgentMemory_init(prompt_arg).system_prompt
    /\ steps = AgentMemory_init(prompt_arg).steps
    /\ last = "__init__"
    /\ arg = PyNone
    /\ result = PyNone
    /\ raised = "none"
    /\ sink = <<>>
    /\ appended = <<>>
    /\ pre = AgentMemory_init(prompt_arg)

CallDict ==
    /\ result' = Step_dict(step)
    /\ raised' = "none"
    /\ last' = "dict"
    /\ arg' = PyNone
    /\ UNCHANGED <<system_prompt, steps, step, sink, prompt_arg, appended, pre>>

CallToMessages ==
    \E summary_mode \in BOOLEAN :
        /\ result' = Step_to_messages(step, summary_mode).ret
        /\ raised' = Step_to_messages(step, summary_mode).exc
        /\ last' = "to_messages"
        /\ arg' = PyBool(summary_mode)
        /\ UNCHANGED <<system_prompt, steps, step, sink, prompt_arg, appended, pre>>

NextStep == CallDict \/ CallToMessages

SpecStep == InitStep /\ [][NextStep]_vars

(***************************************************************************)
(* Properties of the step methods, checked under SpecStep.                 *)
(***************************************************************************)
\* A value json can hold: null, booleans, numbers, strings, the byte
\* sequences images are turned into, and lists and mappings of such values.
\* An instance of a class is not.
RECURSIVE JsonSafe(_)
JsonSafe(x) ==
    CASE x.t = "list" -> \A i \in 1..Len(x.v) : JsonSafe(x.v[i])
      [] x.t = "dict" -> \A k \in DOMAIN x.v : JsonSafe(x.v[k])
      [] x.t = "object" -> FALSE
      [] OTHER -> TRUE

C2_FinalAnswerNoMessages ==
    (last = "to_messages" /\ step.cls = "FinalAnswerStep")
        => raised = "none" /\ result = PyList(<<>>)

Role(m) == m.v.role.v[1]

\* The text of a message whose content is one text item.
Text(m) == m.v.content.v[1].v.text

RECURSIVE Select(_, _)
Select(flags, xs) ==
    IF xs = <<>> THEN <<>>
    ELSE (IF Head(flags) THEN <<Head(xs)>> ELSE <<>>) \o Select(Tail(flags), Tail(xs))

OptionalFields ==
    {"model_input_messages", "tool_calls", "error", "model_output_message", "model_output",
     "observations", "observations_images", "action_output", "token_usage"}

\* The five conditions of C7, in the order of the messages they select.
Emits(s, summary_mode) ==
    <<s.v.model_output # PyNone /\ ~summary_mode,
      s.v.tool_calls # PyNone,
      s.v.observations_images # PyNone /\ Len(s.v.observations_images.v) >= 1,
      s.v.observations # PyNone,
      s.v.error # PyNone>>

\* C7: ActionStep.to_messages returns exactly the subsequence of [ASSISTANT
\* (trimmed model_output), TOOL_CALL, USER (observation images), TOOL_RESPONSE
\* (observation), TOOL_RESPONSE (error)] selected, in that order, by:
\* model_output set and not summary_mode; tool_calls set (the empty list
\* included); at least one observation image; observations set; error present.
\* A step with only model_output set yields exactly one ASSISTANT message, and
\* none in summary mode.
C7_ActionStepMessages ==
    (last = "to_messages" /\ step.cls = "ActionStep") =>
        LET on == Emits(step, arg.v)
            roles == Select(on, <<RoleAssistant, RoleToolCall, RoleUser,
                                  RoleToolResponse, RoleToolResponse>>)
            msgs == result.v
            at(k) == Len(Select(SubSeq(on, 1, k), SubSeq(on, 1, k)))
        IN  /\ raised = "none"
            /\ result.t = "list"
            /\ Len(msgs) = Len(roles)
            /\ \A i \in 1..Len(msgs) : Role(msgs[i]) = roles[i]
            /\ on[1] => /\ Len(msgs[1].v.content.v) = 1
                        /\ Text(msgs[1]).v = RStrip(LStrip(step.v.model_output.v))
                        /\ Text(msgs[1]).v = <<>> \/
                             /\ Head(Text(msgs[1]).v) \notin Whitespace
                             /\ Text(msgs[1]).v[Len(Text(msgs[1]).v)] \notin Whitespace
            /\ on[2] => Text(msgs[at(2)]).v[1] = "Calling tools:\n"
            /\ on[3] => /\ Len(msgs[at(3)].v.content.v) = Len(step.v.observations_images.v)
                        /\ \A j \in 1..Len(step.v.observations_images.v) :
                              msgs[at(3)].v.content.v[j].v.image = step.v.observations_images.v[j]
            /\ on[4] => Text(msgs[at(4)]).v = <<"Observation:\n">> \o step.v.observations.v
            /\ on[5] => Text(msgs[at(5)]).v[Len(Text(msgs[at(5)]).v)] = RetryGuidance
            /\ (\A f \in OptionalFields \ {"model_output"} : step.v[f] = PyNone)
                   => Len(msgs) = (IF step.v.model_output # PyNone /\ ~arg.v THEN 1 ELSE 0)

\* All five messages are produced.
C7_Witness ==
    /\ last = "to_messages"
    /\ step.cls = "ActionStep"
    /\ raised = "none"
    /\ Len(result.v) = 5

\* C8: for every ActionStep with error present, to_messages does not raise and
\* its last message is a TOOL_RESPONSE whose text is "Error:\n" + str(error) +
\* the retry guidance, prefixed with "Call id: <id of the first tool call>\n"
\* if and only if tool_calls holds at least one tool call.
C8_ErrorMessage ==
    (last = "to_messages" /\ step.cls = "ActionStep" /\ step.v.error # PyNone) =>
        LET msgs == result.v
            tail == <<"Error:\n">> \o step.v.error.v.message.v \o <<RetryGuidance>>
            has_calls == step.v.tool_calls # PyNone /\ Len(step.v.tool_calls.v) >= 1
        IN  /\ raised = "none"
            /\ Len(msgs) >= 1
            /\ Role(msgs[Len(msgs)]) = RoleToolResponse
            /\ Len(msgs[Len(msgs)].v.content.v) = 1
            /\ Text(msgs[Len(msgs)]).v =
                   (IF has_calls
                    THEN <<"Call id: ">> \o Head(step.v.tool_calls.v).v.id.v \o <<"\n">>
                    ELSE <<>>) \o tail

\* An error on a step with two tool calls: the prefix names the first.
C8_Witness ==
    /\ last = "to_messages"
    /\ step.cls = "ActionStep"
    /\ step.v.error # PyNone
    /\ step.v.tool_calls = PyList(<<ToolCall2, ToolCall1>>)
    /\ Text(result.v[Len(result.v)]).v[2] = "t2"

\* C9: ActionStep.dict() succeeds for every subset of the optional fields
\* being set; each unset optional field serializes to null, except tool_calls,
\* which serializes to the empty list.
C9_DictNullSafe ==
    (last = "dict" /\ step.cls = "ActionStep") =>
        /\ raised = "none"
        /\ result.t = "dict"
        /\ OptionalFields \subseteq DOMAIN result.v
        /\ \A f \in OptionalFields :
              step.v[f] = PyNone =>
                  result.v[f] = (IF f = "tool_calls" THEN PyList(<<>>) ELSE PyNone)

\* dict() of an ActionStep with every optional field unset.
C9_Witness ==
    /\ last = "dict"
    /\ step.cls = "ActionStep"
    /\ \A f \in OptionalFields : step.v[f] = PyNone
    /\ result.v.tool_calls = PyList(<<>>)

(***************************************************************************)
(* Properties of AgentMemory, checked under Spec.                          *)
(***************************************************************************)
\* The step_number values of the ActionStep entries of ss, in sequence order.
RECURSIVE ActionNumbers(_)
ActionNumbers(ss) ==
    IF ss = <<>> THEN <<>>
    ELSE (IF Head(ss).cls = "ActionStep" THEN <<Head(ss).v.step_number.v>> ELSE <<>>)
         \o ActionNumbers(Tail(ss))

NonDecreasing(ns) == \A i, j \in 1..Len(ns) : i <= j => ns[i] <= ns[j]

C4_ResetClearsSteps ==
    last = "reset" =>
        /\ raised = "none"
        /\ Len(steps) = 0
        /\ system_prompt = SystemPromptStep(prompt_arg)
        /\ system_prompt = pre.system_prompt

\* reset() called on a memory that holds three steps.
C4_Witness ==
    /\ last = "reset"
    /\ Len(pre.steps) = 3
    /\ steps = <<>>

ScenarioPrompt == PyStr(<<"You are a coding agent.">>)

ScenarioSteps ==
    <<TaskStep(TaskText, PyNone),
      ActionStep(PyInt(1), Timing0, PyNone, PyNone, PyNone, PyNone, CodeText, PyNone,
                 PyNone, PyNone, PyNone, PyBool(FALSE))>>

\* C5: after any sequence of step appends and reset calls, get_full_steps()
\* returns exactly one mapping per step appended since the last reset, in
\* append order, each equal to that step's dict(); after appending
\* TaskStep(task="write fib") then ActionStep(step_number=1, model_output=X)
\* the result has length 2, entry 0 has task "write fib" and entry 1 has
\* model_output X.
C5_FullSteps ==
    last = "get_full_steps" =>
        /\ raised = "none"
        /\ result.t = "list"
        /\ Len(result.v) = Len(appended)
        /\ \A i \in 1..Len(appended) :
              /\ result.v[i] = Step_dict(appended[i])
              /\ appended[i].cls = "TaskStep" =>
                     /\ DOMAIN result.v[i].v = {"task", "task_images"}
                     /\ result.v[i].v.task = appended[i].v.task
              /\ appended[i].cls = "ActionStep" =>
                     /\ result.v[i].v.step_number = appended[i].v.step_number
                     /\ result.v[i].v.model_output = appended[i].v.model_output
                     /\ result.v[i].v.model_input_messages = appended[i].v.model_input_messages
              /\ appended[i].cls = "PlanningStep" =>
                     /\ result.v[i].v.plan = appended[i].v.plan
                     /\ "model_input_messages" \in DOMAIN result.v[i].v
        /\ appended = ScenarioSteps =>
              /\ Len(result.v) = 2
              /\ result.v[1].v.task = PyStr(<<"write fib">>)
              /\ result.v[2].v.model_output = PyStr(<<"def fib(n): ...">>)

\* The scenario of C5, after an earlier reset.
C5_Witness ==
    /\ last = "get_full_steps"
    /\ prompt_arg = ScenarioPrompt
    /\ appended = ScenarioSteps
    /\ Len(result.v) = 2

SetsInputMessages(s) ==
    /\ "model_input_messages" \in DOMAIN s.v
    /\ s.v.model_input_messages # PyNone

\* C6: no mapping returned by get_succinct_steps() has the key
\* model_input_messages, and each equals the corresponding get_full_steps()
\* mapping with only that key removed, while the get_full_steps() mapping of a
\* step has the key whenever the step sets that field.
C6_SuccinctSteps ==
    /\ last = "get_succinct_steps" =>
          LET full == MapSeq(Step_dict, steps)
          IN  /\ raised = "none"
              /\ Len(result.v) = Len(steps)
              /\ \A i \in 1..Len(steps) :
                    /\ "model_input_messages" \notin DOMAIN result.v[i].v
                    /\ DOMAIN result.v[i].v = DOMAIN full[i].v \ {"model_input_messages"}
                    /\ \A k \in DOMAIN result.v[i].v : result.v[i].v[k] = full[i].v[k]
    /\ last = "get_full_steps" =>
          \A i \in 1..Len(steps) :
              SetsInputMessages(steps[i]) =>
                  /\ "model_input_messages" \in DOMAIN result.v[i].v
                  /\ result.v[i].v.model_input_messages # PyNone

\* get_succinct_steps() on a memory holding a step that sets model_input_messages.
C6_Witness ==
    /\ last = "get_succinct_steps"
    /\ \E i \in 1..Len(steps) : steps[i].cls = "ActionStep" /\ SetsInputMessages(steps[i])
    /\ \E i \in 1..Len(steps) : steps[i].cls = "TaskStep"

\* What C10 says replay writes for one step.
ReplayOf(s, detailed) ==
    LET input == IF detailed /\ s.v.model_input_messages # PyNone
                 THEN <<[op |-> "log_messages", args |-> <<s.v.model_input_messages>>,
                         level |-> "ERROR"]>>
                 ELSE <<>>
    IN  CASE s.cls = "TaskStep" ->
               <<[op |-> "log_task", args |-> <<s.v.task, PyStr(<<>>)>>, level |-> "ERROR"]>>
          [] s.cls = "ActionStep" ->
               <<[op |-> "log_rule",
                  args |-> <<PyStr(<<"Step ", ToString(s.v.step_number)>>)>>,
                  level |-> "ERROR"]>>
               \o input
               \o (IF s.v.model_output # PyNone
                   THEN <<[op |-> "log_markdown",
                           args |-> <<PyStr(<<"Agent output:">>), s.v.model_output>>,
                           level |-> "ERROR"]>>
                   ELSE <<>>)
          [] s.cls = "PlanningStep" ->
               <<[op |-> "log_rule", args |-> <<PyStr(<<"Planning step">>)>>, level |-> "ERROR"]>>
               \o input
               \o <<[op |-> "log_markdown",
                     args |-> <<PyStr(<<"Agent output:">>), s.v.plan>>,
                     level |-> "ERROR"]>>

RECURSIVE ReplayOfAll(_, _)
ReplayOfAll(ss, detailed) ==
    IF ss = <<>> THEN <<>>
    ELSE ReplayOfAll(SubSeq(ss, 1, Len(ss) - 1), detailed) \o ReplayOf(ss[Len(ss)], detailed)

SystemPromptEntry ==
    [op |-> "log_markdown",
     args |-> <<PyStr(<<"System prompt">>), prompt_arg>>,
     level |-> "ERROR"]

\* C10 as stated: replay(sink, detailed) writes the system prompt first, then
\* the output of each step in steps order (TaskStep: task line; ActionStep:
\* step-boundary rule, input messages only if detailed and present, model
\* output only if present; PlanningStep: boundary rule, input messages only if
\* detailed and present, the plan), and leaves system_prompt and steps
\* unchanged; with detailed false no input messages are written.
C10_ReplayOrder ==
    last = "replay" =>
        /\ raised = "none"
        /\ sink = <<SystemPromptEntry>> \o ReplayOfAll(steps, arg.v)
        /\ Memory(system_prompt, steps) = pre
        /\ ~arg.v => \A i \in 1..Len(sink) : sink[i].op # "log_messages"

\* C10 as amended: replay first writes the header line "Replaying the agent's
\* steps:" to the sink's console, then the system prompt, then the output of
\* each step in steps order as stated, and leaves system_prompt and steps
\* unchanged; with detailed false no input messages are written.
C10_ReplayOrderAfterHeader ==
    last = "replay" =>
        /\ raised = "none"
        /\ sink = <<[op |-> "console.log",
                     args |-> <<PyStr(<<"Replaying the agent's steps:">>)>>,
                     level |-> "none"],
                    SystemPromptEntry>>
                  \o ReplayOfAll(steps, arg.v)
        /\ Memory(system_prompt, steps) = pre
        /\ ~arg.v => \A i \in 1..Len(sink) : sink[i].op # "log_messages"

\* A replay without detail of a task, an action step that has input messages
\* and a model output, and a planning step.
C10_Witness ==
    /\ last = "replay"
    /\ arg = PyBool(FALSE)
    /\ Len(steps) = 3
    /\ steps[1].cls = "TaskStep"
    /\ steps[2].cls = "ActionStep" /\ steps[2].v.model_input_messages # PyNone
    /\ steps[3].cls = "PlanningStep"
    /\ Len(sink) = 7
====
